---- MODULE Spec2Model ----
(***************************************************************************)
(* go-catch (cmd/catch/main.go): the poll loop of main, which samples the  *)
(* MySQL process list, filters it, and writes each kept process to the     *)
(* day's file through a bufio.Writer and to the terminal; and              *)
(* formatProcessOutput, which renders one process.                         *)
(*                                                                         *)
(* Texts are TLA+ strings; strings.Contains and strings.ToLower are        *)
(* computed on them character by character.  A rendering is kept as a      *)
(* record of its fields, each coloured field with the attributes of the    *)
(* escape codes that surround it, and TextLen gives its length in bytes.   *)
(***************************************************************************)
EXTENDS Integers, Sequences, FiniteSets, TLC

(* ------------------------------ bounds -------------------------------- *)

\* longest batch of arbitrary sessions the data source returns
MaxBatch == 2
\* number of polls of a run
MaxCycles == 2
\* number of sessions of the busy batch (enough to fill the write buffer)
BusySessions == 22

(* ------------------------- program constants -------------------------- *)

\* bufio.NewWriter(file): the default buffer size of package bufio
BufSize == 4096
\* 5*time.Second, in seconds
ReportWindow == 5
\* length of the banner line with its timestamp and newline
HeaderLen == 91
\* length of the eight labels, their newlines and the closing blank line
LabelsLen == 97

(* ------------------------------ strings ------------------------------- *)

\* strings.Contains(s, substr)
Contains(s, substr) ==
    \E i \in 1..(Len(s) - Len(substr) + 1) :
        SubSeq(s, i, i + Len(substr) - 1) = substr

\* unicode.ToLower on the letters the texts of this model use
LowerChar(c) ==
    CASE c = "A" -> "a" [] c = "B" -> "b" [] c = "C" -> "c" [] c = "D" -> "d"
      [] c = "E" -> "e" [] c = "F" -> "f" [] c = "G" -> "g" [] c = "H" -> "h"
      [] c = "I" -> "i" [] c = "J" -> "j" [] c = "K" -> "k" [] c = "L" -> "l"
      [] c = "M" -> "m" [] c = "N" -> "n" [] c = "O" -> "o" [] c = "P" -> "p"
      [] c = "Q" -> "q" [] c = "R" -> "r" [] c = "S" -> "s" [] c = "T" -> "t"
      [] c = "U" -> "u" [] c = "V" -> "v" [] c = "W" -> "w" [] c = "X" -> "x"
      [] c = "Y" -> "y" [] c = "Z" -> "z" [] OTHER -> c

RECURSIVE ToLower(_)
\* strings.ToLower(s)
ToLower(s) ==
    IF s = "" THEN ""
    ELSE LowerChar(SubSeq(s, 1, 1)) \o ToLower(SubSeq(s, 2, Len(s)))

RECURSIVE Digits(_)
\* number of characters of %d for n >= 0
Digits(n) == IF n < 10 THEN 1 ELSE 1 + Digits(n \div 10)

(* ------------------------------ Process ------------------------------- *)

\* sql.NullString
NullString(s) == [String |-> s, Valid |-> TRUE]
Null == [String |-> "", Valid |-> FALSE]

\* type Process
Process(id, time, state, info) ==
    [ID |-> id, User |-> "app", Host |-> "10.0.0.5:51234",
     DB |-> NullString("shop"), Command |-> "Query", Time |-> time,
     State |-> state, Info |-> info]

VARIABLES
    debugFlag,    \* -d
    queryFlag,    \* -q
    verboseFlag,  \* -v
    NoColor,      \* color.NoColor: the terminal takes no escape codes
    pc,           \* "open", "poll", "process", "sleep", "panicked"
    processes,    \* the batch of the cycle
    idx,          \* index of the next process of the range loop
    writer,       \* the bufio.Writer of the cycle
    disk,         \* content of the day's file
    console,      \* everything printed to the terminal
    queryCount,   \* the debug counter
    now,          \* wall clock, seconds
    lastCheck,    \* time of the last statistics report
    cycles,       \* polls made
    diskAtOpen,   \* history: disk when the cycle opened the file
    mark,         \* history: Len(console) when the poll returned
    passed,       \* history: processes of the cycle that reached the sinks
    window,       \* history: processes looped over since the last report
    fmtIn,        \* input of a formatProcessOutput call made on its own
    fmtOut        \* its result, once it returned (a sequence of 0 or 1)

vars == <<debugFlag, queryFlag, verboseFlag, NoColor, pc, processes, idx,
          writer, disk, console, queryCount, now, lastCheck, cycles,
          diskAtOpen, mark, passed, window, fmtIn, fmtOut>>

flags == <<debugFlag, queryFlag, verboseFlag, NoColor>>
history == <<diskAtOpen, mark, passed, window>>
fmtVars == <<fmtIn, fmtOut>>

(* ---------------------------- rendering ------------------------------- *)

\* color.New(...).SprintFunc()(s) of package fatih/color: the text between
\* the escape codes of the colour's attributes, or the bare text when
\* color.NoColor is set
Sprint(c, s) == [attrs |-> IF NoColor THEN <<>> ELSE c, text |-> s]

\* SwitchCase with the update case written above the insert case
SwitchCaseUpdateFirst(p) ==
    LET lower == ToLower(p.Info.String) IN
    IF p.State.String = "login" THEN "login"
    ELSE IF p.State.String = "Receiving from client" THEN "receiving"
    ELSE IF Contains(lower, "select") THEN "select"
    ELSE IF Contains(lower, "update") THEN "update"
    ELSE IF Contains(lower, "insert") THEN "insert"
    ELSE IF Contains(lower, "delete") THEN "delete"
    ELSE IF \/ Contains(lower, "create")
            \/ Contains(lower, "alter")
            \/ Contains(lower, "drop") THEN "ddl"
    ELSE "none"

\* the case of the switch of formatProcessOutput that is taken (the first
\* one, top to bottom, whose condition holds)
SwitchCase(p) ==
    LET lower == ToLower(p.Info.String) IN
    IF p.State.String = "login" THEN "login"
    ELSE IF p.State.String = "Receiving from client" THEN "receiving"
    ELSE IF Contains(lower, "select") THEN "select"
    ELSE IF Contains(lower, "insert") THEN "insert"
    ELSE IF Contains(lower, "update") THEN "update"
    ELSE IF Contains(lower, "delete") THEN "delete"
    ELSE IF \/ Contains(lower, "create")
            \/ Contains(lower, "alter")
            \/ Contains(lower, "drop") THEN "ddl"
    ELSE "none"

\* SelectColor with the limit test written above the count(*) test
SelectColorLimitFirst(p) ==
    LET lower == ToLower(p.Info.String) IN
    IF Contains(lower, "limit")
    THEN <<"FgGreen", "Bold">>
    ELSE IF Contains(lower, "count(*)")
    THEN <<"FgMagenta", "Bold">>
    ELSE <<"FgCyan", "Bold">>

\* the if/else-if inside the select case
SelectColor(p) ==
    LET lower == ToLower(p.Info.String) IN
    IF Contains(lower, "count(*)")
    THEN <<"FgMagenta", "Bold">>
    ELSE IF Contains(lower, "limit")
    THEN <<"FgGreen", "Bold">>
    ELSE <<"FgCyan", "Bold">>

\* stateColor of formatProcessOutput when it reaches the Sprintf
stateColor(p, useColor) ==
    IF ~useColor THEN <<"FgYellow">>
    ELSE LET case == SwitchCase(p) IN
         IF case = "login" THEN <<"FgRed">>
         ELSE IF case = "receiving" THEN <<"FgBlue">>
         ELSE IF case = "select" THEN <<"FgGreen">>
         ELSE <<"FgYellow">>

\* infoColor of formatProcessOutput when it reaches the Sprintf
infoColor(p, useColor) ==
    IF ~useColor THEN <<"FgCyan">>
    ELSE LET case == SwitchCase(p) IN
         IF case = "select" THEN SelectColor(p)
         ELSE IF case = "insert" THEN <<"FgGreen", "Bold">>
         ELSE IF case = "update" THEN <<"FgYellow", "Bold">>
         ELSE IF case = "delete" THEN <<"FgRed", "Bold">>
         ELSE IF case = "ddl" THEN <<"FgMagenta", "Bold">>
         ELSE <<"FgCyan">>

\* formatProcessOutput(p, useColor): header + info
formatProcessOutput(p, useColor) ==
    [timestamp |-> now,
     ID |-> p.ID, User |-> p.User, Host |-> p.Host, DB |-> p.DB.String,
     Command |-> p.Command, Time |-> p.Time,
     State |-> Sprint(stateColor(p, useColor), p.State.String),
     Info |-> Sprint(infoColor(p, useColor), p.Info.String)]

\* bytes of a coloured field: ESC [ code {; code} m  text  ESC [ 0 m
WrapLen(w) ==
    Len(w.text) + (IF w.attrs = <<>> THEN 0 ELSE 7 + 2 * Len(w.attrs))

\* len() of the string formatProcessOutput returns
TextLen(t) ==
    HeaderLen + LabelsLen + Digits(t.ID) + Len(t.User) + Len(t.Host)
    + Len(t.DB) + Len(t.Command) + Digits(t.Time)
    + WrapLen(t.State) + WrapLen(t.Info)

\* isMonitoringQuery(info)
isMonitoringQuery(info) ==
    /\ Contains(info, "FROM information_schema.processlist")
    /\ Contains(info, "WHERE command != 'Sleep'")

\* isQuery of the range loop of main
isQuery(info) ==
    \/ Contains(info, "select")
    \/ Contains(info, "insert")
    \/ Contains(info, "update")
    \/ Contains(info, "delete")
    \/ Contains(info, "create")
    \/ Contains(info, "alter")
    \/ Contains(info, "drop")

\* Keep with the negation of the debug flag left out
KeepOwnQueryUnlessDebug(p) ==
    /\ ~(debugFlag /\ isMonitoringQuery(p.Info.String))
    /\ ~(queryFlag /\ ~isQuery(p.Info.String))

\* the two continue statements before the sinks: whether p goes on
Keep(p) ==
    /\ ~(~debugFlag /\ isMonitoringQuery(p.Info.String))
    /\ ~(queryFlag /\ ~isQuery(p.Info.String))

\* IsCounted without the limit test
IsCountedNoLimit(info) ==
    \/ Contains(info, "select")
    \/ Contains(info, "count(")

\* the condition of queryCount++ (without the flag)
IsCounted(info) ==
    \/ Contains(info, "select")
    \/ Contains(info, "count(")
    \/ Contains(info, "limit")

\* queryType of the verbose print
queryType(info) ==
    IF Contains(ToLower(info), "select") THEN "SELECT"
    ELSE IF Contains(ToLower(info), "show") THEN "SHOW"
    ELSE "unknown"

\* time.Since(lastCheck) > 5*time.Second
ReportDue == now - lastCheck > ReportWindow

(* ---------------------------- data source ----------------------------- *)

\* sessions getProcessList may return
P1 == Process(1, 3, NullString("executing"),
              NullString("SELECT COUNT(*) FROM t"))
P2 == Process(2, 0, NullString("executing"),
              NullString("FROM information_schema.processlist WHERE command != 'Sleep'"))
P3 == Process(3, 3, NullString("Sending data"),
              NullString("select name from users limit 10"))
P4 == Process(4, 1, Null, NullString("show warnings limit 5"))
SessionList == <<P1, P2, P3, P4>>
Sessions == {SessionList[i] : i \in 1..Len(SessionList)}

\* ORDER BY TIME DESC, and one row per session
IsResultSet(b) ==
    \A i, j \in 1..Len(b) :
        i < j => b[i].Time >= b[j].Time /\ b[i].ID # b[j].ID

ShortBatches ==
    {b \in UNION {[1..n -> Sessions] : n \in 0..MaxBatch} : IsResultSet(b)}

\* a busy server: many sessions at once, running the same statements
BusyBatch ==
    [i \in 1..BusySessions |->
        [SessionList[((i - 1) % Len(SessionList)) + 1]
            EXCEPT !.ID = i, !.Time = 1]]

Batches == ShortBatches \cup {BusyBatch}

\* seconds a call of getProcessList may take
Durations == {0, ReportWindow + 1}

(* --------------------------- bufio.Writer ----------------------------- *)

\* bufio.NewWriter(file): the renderings handed to the writer so far, how
\* many of their bytes sit in the buffer (b.n), how many went on to the
\* file, and the writer's sticky error (b.err)
NewWriter == [stream |-> <<>>, n |-> 0, flushed |-> 0, err |-> FALSE]

\* len(s) > b.Available(): WriteString has to flush the full buffer first
MustFlush(w, t) == TextLen(t) > BufSize - w.n

\* FileWrite on a file opened with O_TRUNC in place of O_APPEND
FileWriteTruncating(d, w, text, upto) ==
    <<[text |-> text, bytes |-> upto]>>

\* file.Write of the bytes of text from w.flushed up to upto, in append mode:
\* the day's file is a sequence of chunks, one per cycle that wrote to it,
\* each the renderings of the cycle and how many of their bytes are on disk
FileWrite(d, w, text, upto) ==
    IF w.flushed = 0
    THEN Append(d, [text |-> text, bytes |-> upto])
    ELSE [d EXCEPT ![Len(d)] = [text |-> text, bytes |-> upto]]

(* ------------------------------- main --------------------------------- *)

Init ==
    /\ debugFlag \in BOOLEAN
    /\ queryFlag \in BOOLEAN
    /\ verboseFlag \in BOOLEAN
    /\ NoColor \in BOOLEAN
    /\ pc = "open"
    /\ processes = <<>>
    /\ idx = 1
    /\ writer = NewWriter
    /\ disk = <<>>
    /\ console = <<>>
    /\ queryCount = 0
    /\ now = 0
    /\ lastCheck = 0
    /\ cycles = 0
    /\ diskAtOpen = <<>>
    /\ mark = 0
    /\ passed = <<>>
    /\ window = <<>>
    /\ fmtIn = <<>>
    /\ fmtOut = <<>>

\* os.OpenFile succeeds; writer := bufio.NewWriter(file)
OpenFile ==
    /\ pc = "open"
    /\ cycles < MaxCycles
    /\ pc' = "poll"
    /\ writer' = NewWriter
    /\ diskAtOpen' = disk
    /\ UNCHANGED <<flags, processes, idx, disk, console, queryCount, now,
                   lastCheck, cycles, mark, passed, window, fmtVars>>

\* os.OpenFile fails: panic(err)
OpenFileFails ==
    /\ pc = "open"
    /\ cycles < MaxCycles
    /\ pc' = "panicked"
    /\ UNCHANGED <<flags, processes, idx, writer, disk, console, queryCount,
                   now, lastCheck, cycles, history, fmtVars>>

\* getProcessList returns a batch
Poll ==
    /\ pc = "poll"
    /\ \E d \in Durations : now' = now + d
    /\ \E b \in Batches : processes' = b
    /\ idx' = 1
    /\ cycles' = cycles + 1
    /\ pc' = "process"
    /\ mark' = Len(console)
    /\ passed' = <<>>
    /\ UNCHANGED <<flags, writer, disk, console, queryCount, lastCheck,
                   diskAtOpen, window, fmtVars>>

\* getProcessList returns an error: print it, file.Close(), continue
PollFails ==
    /\ pc = "poll"
    /\ \E d \in Durations : now' = now + d
    /\ cycles' = cycles + 1
    /\ console' = Append(console, [kind |-> "error", what |-> "poll"])
    /\ pc' = "open"
    /\ UNCHANGED <<flags, processes, idx, writer, disk, queryCount, lastCheck,
                   diskAtOpen, mark, passed, window, fmtVars>>

\* one of the two continue statements of the filter
SkipRecord ==
    /\ pc = "process"
    /\ idx <= Len(processes)
    /\ ~Keep(processes[idx])
    /\ idx' = idx + 1
    /\ window' = Append(window, processes[idx])
    /\ UNCHANGED <<flags, pc, processes, writer, disk, console, queryCount,
                   now, lastCheck, cycles, diskAtOpen, mark, passed, fmtVars>>

\* whether the debug counter counts p
Counts(p) == debugFlag /\ IsCounted(p.Info.String)

\* what the verbose and the debug blocks print for p
DebugPrints(p) ==
    (IF verboseFlag
     THEN <<[kind |-> "verbose", type |-> queryType(p.Info.String), id |-> p.ID]>>
     ELSE <<>>)
    \o (IF Counts(p)
        THEN <<[kind |-> "debug", n |-> queryCount + 1, id |-> p.ID]>>
        ELSE <<>>)

\* the part of an iteration that every kept process goes through
BeforeSinks(p) ==
    /\ pc = "process"
    /\ idx <= Len(processes)
    /\ p = processes[idx]
    /\ Keep(p)
    /\ idx' = idx + 1
    /\ queryCount' = IF Counts(p) THEN queryCount + 1 ELSE queryCount
    /\ window' = Append(window, p)
    /\ passed' = Append(passed, p)
    /\ UNCHANGED <<flags, pc, processes, now, lastCheck, cycles, diskAtOpen,
                   mark, fmtVars>>

\* writer.WriteString(fileOutput) returns no error: print to the terminal
WriteRecord ==
    \E p \in {processes[i] : i \in {idx} \cap DOMAIN processes} :
        LET fileOutput == formatProcessOutput(p, FALSE)
            text == Append(writer.stream, fileOutput)
        IN
        /\ BeforeSinks(p)
        /\ ~writer.err
        /\ IF MustFlush(writer, fileOutput)
           THEN /\ writer' = [writer EXCEPT
                                !.stream = text,
                                !.n = @ + TextLen(fileOutput) - BufSize,
                                !.flushed = @ + BufSize]
                /\ disk' = FileWrite(disk, writer, text, writer.flushed + BufSize)
           ELSE /\ writer' = [writer EXCEPT !.stream = text,
                                            !.n = @ + TextLen(fileOutput)]
                /\ disk' = disk
        /\ console' = console \o DebugPrints(p)
                      \o <<[kind |-> "record", id |-> p.ID,
                            text |-> formatProcessOutput(p, TRUE)]>>

\* writer.WriteString(fileOutput) returns an error (the write of the full
\* buffer failed, now or earlier in the cycle): print it and continue
WriteFails ==
    \E p \in {processes[i] : i \in {idx} \cap DOMAIN processes} :
        /\ BeforeSinks(p)
        /\ writer.err \/ MustFlush(writer, formatProcessOutput(p, FALSE))
        /\ writer' = [writer EXCEPT !.err = TRUE]
        /\ disk' = disk
        /\ console' = console \o DebugPrints(p)
                      \o <<[kind |-> "error", what |-> "write", id |-> p.ID]>>

\* after the range loop: the statistics report, writer.Flush() (its error
\* is dropped), file.Close()
EndCycle ==
    /\ pc = "process"
    /\ idx > Len(processes)
    /\ IF debugFlag /\ ReportDue
       THEN /\ console' = Append(console, [kind |-> "stats", n |-> queryCount])
            /\ queryCount' = 0
            /\ lastCheck' = now
            /\ window' = <<>>
       ELSE UNCHANGED <<console, queryCount, lastCheck, window>>
    /\ \E ok \in BOOLEAN :
        IF ok /\ ~writer.err /\ writer.n > 0
        THEN /\ disk' = FileWrite(disk, writer, writer.stream,
                                  writer.flushed + writer.n)
             /\ writer' = [writer EXCEPT !.flushed = @ + writer.n, !.n = 0]
        ELSE /\ disk' = disk
             /\ writer' = [writer EXCEPT !.err = @ \/ writer.n > 0]
    /\ pc' = "sleep"
    /\ UNCHANGED <<flags, processes, idx, now, cycles, diskAtOpen, mark,
                   passed, fmtVars>>

\* time.Sleep(...)
Sleep ==
    /\ pc = "sleep"
    /\ pc' = "open"
    /\ UNCHANGED <<flags, processes, idx, writer, disk, console, queryCount,
                   now, lastCheck, cycles, history, fmtVars>>

Next ==
    \/ OpenFile
    \/ OpenFileFails
    \/ Poll
    \/ PollFails
    \/ SkipRecord
    \/ WriteRecord
    \/ WriteFails
    \/ EndCycle
    \/ Sleep

Spec == Init /\ [][Next]_vars

(* ------------------- formatProcessOutput on its own ------------------- *)

\* statement texts (INFO) a session may show
Statements ==
    {"SHOW TABLES", "SELECT 1", "select 1",
     "SELECT COUNT(*) FROM t", "select count(*) from t limit 5",
     "SELECT id FROM t LIMIT 5",
     "INSERT INTO t VALUES (1)", "update t set a = 1", "DELETE FROM t",
     "CREATE TABLE t (a int)", "alter table t add b int", "DROP TABLE t",
     "insert into t select a from u", "update t set note = 'inserted'",
     "delete from t where updated = 1", "drop table deleted_rows",
     "FROM information_schema.processlist WHERE command != 'Sleep'"}

\* INFO and STATE columns, NULL included
Infos == {Null, NullString("")} \cup {NullString(t) : t \in Statements}
States ==
    {Null, NullString("login"), NullString("Receiving from client"),
     NullString("executing")}

FormatInputs ==
    {[p |-> Process(7, 2, st, info), useColor |-> c] :
        st \in States, info \in Infos, c \in BOOLEAN}

InitFormat ==
    /\ debugFlag = FALSE
    /\ queryFlag = FALSE
    /\ verboseFlag = FALSE
    /\ NoColor \in BOOLEAN
    /\ pc = "open"
    /\ processes = <<>>
    /\ idx = 1
    /\ writer = NewWriter
    /\ disk = <<>>
    /\ console = <<>>
    /\ queryCount = 0
    /\ now = 0
    /\ lastCheck = 0
    /\ cycles = 0
    /\ diskAtOpen = <<>>
    /\ mark = 0
    /\ passed = <<>>
    /\ window = <<>>
    /\ fmtIn \in FormatInputs
    /\ fmtOut = <<>>

\* a call formatProcessOutput(p, useColor): the text it returns and the
\* colours its two locals hold when it returns
Format ==
    /\ fmtOut = <<>>
    /\ fmtOut' = <<[text |-> formatProcessOutput(fmtIn.p, fmtIn.useColor),
                    stateColor |-> stateColor(fmtIn.p, fmtIn.useColor),
                    infoColor |-> infoColor(fmtIn.p, fmtIn.useColor)]>>
    /\ UNCHANGED <<flags, pc, processes, idx, writer, disk, console,
                   queryCount, now, lastCheck, cycles, history, fmtIn>>

\* the next call
NextInput ==
    /\ fmtOut # <<>>
    /\ fmtIn' \in FormatInputs
    /\ fmtOut' = <<>>
    /\ UNCHANGED <<flags, pc, processes, idx, writer, disk, console,
                   queryCount, now, lastCheck, cycles, history>>

NextFormat ==
    \/ Format
    \/ NextInput

SpecFormat == InitFormat /\ [][NextFormat]_vars

(* ===================== properties: the renderer ======================= *)

\* the statement of p contains both select and count(*), in any letter case
HasSelectCount(p) ==
    /\ Contains(ToLower(p.Info.String), "select")
    /\ Contains(ToLower(p.Info.String), "count(*)")

\* the two states the switch tests before it looks at the statement
StateTestedFirst(p) ==
    p.State.String \in {"login", "Receiving from client"}

\* C7 as stated: with colorize on, a statement containing select and
\* count(*) gets the strong-aggregate emphasis (magenta, bold) and never the
\* strong-bounded one (green, bold), whatever the state of the record.
CountAlwaysStrongAggregate ==
    \A i \in DOMAIN fmtOut :
        (fmtIn.useColor /\ HasSelectCount(fmtIn.p)) =>
            /\ fmtOut[i].infoColor = <<"FgMagenta", "Bold">>
            /\ fmtOut[i].infoColor # <<"FgGreen", "Bold">>

\* C7 as amended: with colorize on, a statement containing select and
\* count(*) never gets the strong-bounded emphasis, also when it contains
\* limit; it gets the strong-aggregate emphasis when the state of the record
\* is neither login nor Receiving from client, and keeps the neutral
\* emphasis (cyan) when it is one of the two.
CountStrongAggregate ==
    \A i \in DOMAIN fmtOut :
        (fmtIn.useColor /\ HasSelectCount(fmtIn.p)) =>
            /\ fmtOut[i].infoColor # <<"FgGreen", "Bold">>
            /\ ~StateTestedFirst(fmtIn.p) =>
                   fmtOut[i].infoColor = <<"FgMagenta", "Bold">>
            /\ StateTestedFirst(fmtIn.p) =>
                   fmtOut[i].infoColor = <<"FgCyan">>

\* C7 witness: a count(*) statement that also contains limit was rendered
\* with colours, for a record in an ordinary state
CountWithLimitRendered ==
    /\ fmtOut # <<>>
    /\ fmtIn.useColor
    /\ HasSelectCount(fmtIn.p)
    /\ Contains(ToLower(fmtIn.p.Info.String), "limit")
    /\ ~StateTestedFirst(fmtIn.p)

\* the keywords of the categories, in the order of precedence
KeywordGroups ==
    <<{"select"}, {"insert"}, {"update"}, {"delete"},
      {"create", "alter", "drop"}>>
GroupName == <<"select", "insert", "update", "delete", "ddl">>
Keywords == UNION {KeywordGroups[g] : g \in DOMAIN KeywordGroups}

\* the lower-cased text contains a keyword of group g
Mentions(text, g) ==
    \E kw \in KeywordGroups[g] : Contains(ToLower(text), kw)

\* the category of the first group, in the order of precedence, that the
\* text mentions, or unknown
Category(text) ==
    IF \A g \in DOMAIN KeywordGroups : ~Mentions(text, g) THEN "unknown"
    ELSE GroupName[CHOOSE g \in DOMAIN KeywordGroups :
                       /\ Mentions(text, g)
                       /\ \A h \in 1..(g - 1) : ~Mentions(text, h)]

\* the category a pair of colours stands for: only the select case turns the
\* state green, and the other cases differ in the colour of the statement
ShownCategory(out) ==
    IF out.stateColor = <<"FgGreen">> THEN "select"
    ELSE IF out.infoColor = <<"FgGreen", "Bold">> THEN "insert"
    ELSE IF out.infoColor = <<"FgYellow", "Bold">> THEN "update"
    ELSE IF out.infoColor = <<"FgRed", "Bold">> THEN "delete"
    ELSE IF out.infoColor = <<"FgMagenta", "Bold">> THEN "ddl"
    ELSE "unknown"

\* the keywords the lower-cased text contains
KeywordsIn(text) == {kw \in Keywords : Contains(ToLower(text), kw)}

\* the category of a keyword
CategoryOf(kw) ==
    GroupName[CHOOSE g \in DOMAIN KeywordGroups : kw \in KeywordGroups[g]]

\* what C8 says of one rendering: the category is that of the first keyword
\* in the order of precedence; a text with exactly one keyword gets that
\* keyword's category; a text with none gets the neutral emphasis
CategoryIsFirstKeyword(p, out) ==
    /\ ShownCategory(out) = Category(p.Info.String)
    /\ \A kw \in Keywords :
           KeywordsIn(p.Info.String) = {kw} =>
               ShownCategory(out) = CategoryOf(kw)
    /\ KeywordsIn(p.Info.String) = {} =>
           /\ ShownCategory(out) = "unknown"
           /\ out.infoColor = <<"FgCyan">>

\* C8 as stated: the category of a statement is that of the first keyword, in
\* the order select, insert, update, delete, create/alter/drop, that its
\* lower-cased text contains; one keyword gives that keyword's category; an
\* empty, absent or keyword-free text gives unknown (neutral emphasis).
CategoryByFirstKeywordAlways ==
    \A i \in DOMAIN fmtOut :
        fmtIn.useColor => CategoryIsFirstKeyword(fmtIn.p, fmtOut[i])

\* C8 as amended: the same, for a record whose state is neither login nor
\* Receiving from client (colorize on); for a record in one of these two
\* states no category is assigned, the statement keeps the neutral emphasis.
CategoryByFirstKeyword ==
    \A i \in DOMAIN fmtOut :
        fmtIn.useColor =>
            IF StateTestedFirst(fmtIn.p)
            THEN /\ ShownCategory(fmtOut[i]) = "unknown"
                 /\ fmtOut[i].infoColor = <<"FgCyan">>
            ELSE /\ CategoryIsFirstKeyword(fmtIn.p, fmtOut[i])
                 /\ Category(fmtIn.p.Info.String) = "unknown" =>
                        fmtOut[i].stateColor = <<"FgYellow">>

\* C8 witness: a statement with keywords of two categories was rendered with
\* colours for a record in an ordinary state, and shows the first of them
TwoKeywordsRendered ==
    /\ fmtOut # <<>>
    /\ fmtIn.useColor
    /\ ~StateTestedFirst(fmtIn.p)
    /\ Mentions(fmtIn.p.Info.String, 2)
    /\ Mentions(fmtIn.p.Info.String, 3)
    /\ ShownCategory(fmtOut[1]) = "insert"

(* ===================== properties: the poll loop ====================== *)

\* a cycle is under way or just ended: processes, idx, mark are its own
InCycle == pc \in {"process", "sleep"}

\* what the terminal got since the poll of the cycle returned
ConsoleSince == SubSeq(console, mark + 1, Len(console))

IsRecordLine(e) == e.kind = "record"

\* the processes printed in the cycle, in the order of printing
ShownTexts ==
    LET lines == SelectSeq(ConsoleSince, IsRecordLine) IN
    [i \in DOMAIN lines |-> lines[i].text]

\* the first k processes of the batch that pass the filter, in batch order
Kept(k) == SelectSeq(SubSeq(processes, 1, k), Keep)

\* their renderings, without and with colours
Renderings(ps, useColor) ==
    [i \in DOMAIN ps |-> formatProcessOutput(ps[i], useColor)]

RECURSIVE SumLen(_)
\* bytes of a sequence of renderings
SumLen(texts) ==
    IF texts = <<>> THEN 0 ELSE TextLen(Head(texts)) + SumLen(Tail(texts))

\* the statement is the tool's own session query: it holds the reference to
\* the session table and the exclusion clause
OwnQueryMarkers ==
    {"FROM information_schema.processlist", "WHERE command != 'Sleep'"}
MentionsOwnQuery(text) == \A m \in OwnQueryMarkers : Contains(text, m)

\* C1 as stated: no failure of opening or writing the day's file stops the
\* polling.
PollingNeverStops == pc # "panicked"

\* C2 as stated: when the data source returns an error, nothing is written
\* to the file, no record is printed, and the loop sleeps before it polls
\* again.
FailedPollSleeps ==
    [][(pc = "poll" /\ pc' # "process") =>
           /\ pc' = "sleep"
           /\ disk' = disk
           /\ \A i \in (Len(console) + 1)..Len(console') :
                  console'[i].kind # "record"]_vars

\* C3 as stated: a kept record whose file write failed is still shown on the
\* terminal.
FailedWriteStillShown ==
    InCycle =>
        \A i \in DOMAIN ConsoleSince :
            (ConsoleSince[i].kind = "error" /\ ConsoleSince[i].what = "write") =>
                \E j \in DOMAIN ConsoleSince :
                    /\ ConsoleSince[j].kind = "record"
                    /\ ConsoleSince[j].id = ConsoleSince[i].id

\* C4 as stated: with queriesOnly, a record whose statement contains none of
\* the seven keywords is dropped, and a record whose statement contains one
\* of them, in any letter case, is kept (the tool's own query aside, which
\* self-exclusion drops first when debug is off).
QueriesOnlyAnyCase ==
    (InCycle /\ queryFlag) =>
        \A i \in 1..(idx - 1) :
            LET p == processes[i] IN
            /\ KeywordsIn(p.Info.String) = {} =>
                   \A j \in DOMAIN passed : passed[j] # p
            /\ (/\ KeywordsIn(p.Info.String) # {}
                /\ (debugFlag \/ ~MentionsOwnQuery(p.Info.String))) =>
                   \E j \in DOMAIN passed : passed[j] = p

\* the terminal or the file (on disk or in the writer) holds a rendering of
\* the tool's own query
OwnQueryInOutput ==
    \/ \E i \in DOMAIN console :
           /\ console[i].kind = "record"
           /\ MentionsOwnQuery(console[i].text.Info.text)
    \/ \E i \in DOMAIN writer.stream :
           MentionsOwnQuery(writer.stream[i].Info.text)
    \/ \E c \in DOMAIN disk : \E i \in DOMAIN disk[c].text :
           MentionsOwnQuery(disk[c].text[i].Info.text)

\* p went through the filter to the sinks, and, unless WriteString returned
\* an error for it, its rendering is in the writer and on the terminal
Emitted(p) ==
    /\ \E j \in DOMAIN passed : passed[j] = p
    /\ \/ \E i \in DOMAIN ConsoleSince :
              /\ ConsoleSince[i].kind = "error"
              /\ ConsoleSince[i].what = "write"
              /\ ConsoleSince[i].id = p.ID
       \/ /\ \E i \in DOMAIN writer.stream : writer.stream[i].ID = p.ID
          /\ \E i \in DOMAIN ConsoleSince :
                 /\ ConsoleSince[i].kind = "record"
                 /\ ConsoleSince[i].id = p.ID

\* C5: with debug off the tool's own query reaches neither sink; with debug
\* on (and queriesOnly off) it is emitted; of the batch [1: SELECT COUNT(*)
\* FROM t, 2: the monitoring query] the output holds record 1 alone with
\* debug off and both records with debug on.
SelfExclusion ==
    /\ ~debugFlag => ~OwnQueryInOutput
    /\ (debugFlag /\ ~queryFlag /\ InCycle) =>
           \A i \in 1..(idx - 1) :
               MentionsOwnQuery(processes[i].Info.String) =>
                   Emitted(processes[i])
    /\ (pc = "sleep" /\ ~queryFlag /\ processes = <<P1, P2>>) =>
           LET expected == IF debugFlag THEN <<P1, P2>> ELSE <<P1>> IN
           /\ ShownTexts = Renderings(expected, TRUE)
           /\ writer.stream = Renderings(expected, FALSE)
           /\ ~writer.err => disk[Len(disk)].text = writer.stream

\* C5 witness: the batch of the example went through a cycle with debug off
ExampleBatchFiltered ==
    /\ pc = "sleep"
    /\ ~debugFlag
    /\ ~queryFlag
    /\ processes = <<P1, P2>>
    /\ Len(passed) = 1

\* C6 as stated: what the file sink receives carries no colour codes,
\* whatever the terminal can do.
FileTextUncoloured ==
    \A i \in DOMAIN writer.stream :
        /\ writer.stream[i].State.attrs = <<>>
        /\ writer.stream[i].Info.attrs = <<>>

\* the statement matches select, count( or limit
MatchesStatistics(text) ==
    \E kw \in {"select", "count(", "limit"} : Contains(text, kw)

\* the record passes the filter
PassesFilter(p) ==
    /\ debugFlag \/ ~MentionsOwnQuery(p.Info.String)
    /\ queryFlag => \E kw \in Keywords : Contains(p.Info.String, kw)

CycleAppended ==
    (pc = "sleep" /\ ~writer.err) =>
        LET kept == Kept(Len(processes))
            texts == Renderings(kept, FALSE)
        IN
        /\ disk = IF kept = <<>> THEN diskAtOpen
                  ELSE Append(diskAtOpen,
                              [text |-> texts, bytes |-> SumLen(texts)])
        /\ ShownTexts = Renderings(kept, TRUE)

\* during the record loop the terminal has each kept record processed so far
\* and the writer has its rendering
RecordsAsProcessed ==
    (pc = "process" /\ ~writer.err) =>
        LET kept == Kept(idx - 1) IN
        /\ ShownTexts = Renderings(kept, TRUE)
        /\ writer.stream = Renderings(kept, FALSE)

\* C10 as stated: the cycle appends the renderings of the kept records in
\* batch order; the terminal gets each record as it is processed, and the
\* file gets them only at the flush that ends the cycle.
FileOnlyAtFlush ==
    /\ CycleAppended
    /\ RecordsAsProcessed
    /\ pc = "process" => disk = diskAtOpen

\* C10 as amended: the same, but the file gets the records at the latest at
\* the flush that ends the cycle: whenever the 4096-byte buffer of the writer
\* is full, the writer passes it on to the file during the cycle, so the file
\* then holds, after its earlier content, the first multiple of 4096 bytes
\* of the renderings written so far, and the rest at the flush.
FileByFlush ==
    /\ CycleAppended
    /\ RecordsAsProcessed
    /\ pc = "process" =>
           /\ writer.flushed % BufSize = 0
           /\ writer.n <= BufSize
           /\ ~writer.err => writer.flushed + writer.n = SumLen(writer.stream)
           /\ writer.flushed = 0 => disk = diskAtOpen
           /\ writer.flushed > 0 =>
                  /\ SubSeq(disk, 1, Len(disk) - 1) = diskAtOpen
                  /\ disk[Len(disk)].bytes = writer.flushed
                  /\ \A i \in DOMAIN disk[Len(disk)].text :
                         disk[Len(disk)].text[i] = writer.stream[i]

\* C10 witness: a cycle ended without a write error, having added two or
\* more records, not the whole batch, to a file that had content
AppendedToEarlierContent ==
    /\ pc = "sleep"
    /\ ~writer.err
    /\ diskAtOpen # <<>>
    /\ Len(passed) >= 2
    /\ Len(passed) < Len(processes)

====
